---- MODULE Spec2Model ----
(***************************************************************************)
(* dioxus-markdown: the Dioxus implementation of the rust_web_markdown     *)
(* rendering context (src/src/lib.rs) and the custom_components example.   *)
(*                                                                         *)
(* Five state machines share the variables below:                          *)
(*   Spec          a render pass driven through MdContext                  *)
(*   SpecHandler   make_md_handler, host updates of on_click, clicks       *)
(*   SpecRegistry  CustomComponents values: new, default, clone, drop, eq  *)
(*   SpecProps     attribute lookup on MdComponentProps and the Counter    *)
(*   SpecElement   el_with_attributes                                      *)
(***************************************************************************)
EXTENDS Integers, Sequences, FiniteSets, TLC

VARIABLES
    \* ---- render pass ----
    props,      \* the MdProps behind the Signal: render_links, components, frontmatter
    signal,     \* value of the host's frontmatter Signal<String>
    pc,         \* "Idle" | "Parsing" | "Done" | "Failed" | "Panicked"
    nodes,      \* parse events consumed so far, in order
    views,      \* views emitted so far for the top-level events
    result,     \* what Markdown returned to the host: <<>> until the pass ends
    calls,      \* invocations of registered component functions, in order
    linkCalls,  \* invocations of MdContext::render_links, in order
    fmCalls,    \* texts given to MdContext::set_frontmatter, in order
    \* ---- interaction handlers ----
    on_click,   \* MdProps.on_click as the host currently has it: Option
    handlers,   \* handlers made so far
    made,       \* (range, stop_propagation) each handler was asked for
    click,      \* what the last handler invocation did: None before any
    \* ---- registries ----
    heap,       \* Rc allocations: address -> [map, strong]; <<>> when free
    regs,       \* registry values held by the host: slot -> Option [ptr, origin]
    nconstr,    \* constructions (new / default) so far
    \* ---- attribute lookup ----
    mdprops,    \* the MdComponentProps under test
    lookup,     \* outcome of the last lookup: <<>> before any
    \* ---- element construction ----
    elems       \* the two elements last built by el_with_attributes: slot -> Option

renderVars == <<props, signal, pc, nodes, views, result, calls, linkCalls, fmCalls>>
handlerVars == <<on_click, handlers, made, click>>
registryVars == <<heap, regs, nconstr>>
propsVars == <<mdprops, lookup>>
elementVars == <<elems>>
vars == <<renderVars, handlerVars, registryVars, propsVars, elementVars>>

(***************************************************************************)
(* Bounds                                                                  *)
(***************************************************************************)
MaxNodes == 3       \* parse events per render pass
MaxLen == 2         \* characters of a raw attribute value
MaxHandlers == 2    \* handlers made
MaxConstr == 3      \* registry constructions
MaxStart == 1       \* largest start offset of an ordered list

(***************************************************************************)
(* Option and Result                                                       *)
(***************************************************************************)
None == <<>>
Some(x) == <<x>>
is_some(o) == o # <<>>
unwrap(o) == o[1]

Ok(v) == [tag |-> "Ok", val |-> v]
Err(e) == [tag |-> "Err", val |-> e]
is_ok(r) == r.tag = "Ok"
is_err(r) == r.tag = "Err"

(***************************************************************************)
(* ComponentCreationError                                                  *)
(***************************************************************************)
MissingAttribute(name) == [k |-> "MissingAttribute", name |-> name, value |-> <<>>]
AttributeParseError(name, raw) == [k |-> "AttributeParseError", name |-> name, value |-> raw]
UnknownComponent(name) == [k |-> "UnknownComponent", name |-> name, value |-> <<>>]

(***************************************************************************)
(* Attribute lookup on MdComponentProps.  A raw attribute value is the     *)
(* sequence of its characters; attributes are <<name, value>> pairs in     *)
(* source order; children is the already rendered child view, if any.      *)
(***************************************************************************)
Chars == {"0", "1", "5", "a", "-", "+"}
Digits == {"0", "1", "5"}
digit(c) == CASE c = "0" -> 0 [] c = "1" -> 1 [] c = "5" -> 5

I32Max == 2147483647

MdComponentProps(attributes, children) == [attributes |-> attributes, children |-> children]

\* the raw value stored under `name`, if any
RECURSIVE get(_, _)
get(attributes, name) ==
    IF attributes = <<>> THEN None
    ELSE IF Head(attributes)[1] = name THEN Some(Head(attributes)[2])
    ELSE get(Tail(attributes), name)

\* acc * 10 + d would leave the i32 range (acc >= 0)
pos_overflow(acc, d) ==
    acc > (I32Max \div 10) \/ (acc = (I32Max \div 10) /\ d > (I32Max % 10))

\* acc * 10 - d would leave the i32 range (acc <= 0)
neg_overflow(acc, d) ==
    acc < -(I32Max \div 10) \/ (acc = -(I32Max \div 10) /\ d > (I32Max % 10) + 1)

\* the digit loop of the integer parser: acc * 10 +/- d, checked at every step
RECURSIVE parse_digits(_, _, _)
parse_digits(s, acc, positive) ==
    IF s = <<>> THEN Ok(acc)
    ELSE IF Head(s) \notin Digits THEN Err("InvalidDigit")
    ELSE LET d == digit(Head(s))
         IN IF positive /\ pos_overflow(acc, d) THEN Err("PosOverflow")
            ELSE IF ~positive /\ neg_overflow(acc, d) THEN Err("NegOverflow")
            ELSE parse_digits(Tail(s), IF positive THEN acc * 10 + d ELSE acc * 10 - d,
                              positive)

\* <i32 as FromStr>::from_str: optional sign, then one or more digits
parse_i32(s) ==
    IF s = <<>> THEN Err("Empty")
    ELSE IF Head(s) \in {"+", "-"} /\ Tail(s) = <<>> THEN Err("InvalidDigit")
    ELSE IF Head(s) = "+" THEN parse_digits(Tail(s), 0, TRUE)
    ELSE IF Head(s) = "-" THEN parse_digits(Tail(s), 0, FALSE)
    ELSE parse_digits(s, 0, TRUE)

\* a required attribute parsed as an integer
get_required(p, name) ==
    LET raw == get(p.attributes, name)
    IN IF ~is_some(raw) THEN Err(MissingAttribute(name))
       ELSE LET v == parse_i32(unwrap(raw))
            IN IF is_ok(v) THEN Ok(v.val)
               ELSE Err(AttributeParseError(name, unwrap(raw)))

\* an optional attribute parsed as an integer: Ok(None) when absent
get_parsed_optional(p, name) ==
    LET raw == get(p.attributes, name)
    IN IF ~is_some(raw) THEN Ok(None)
       ELSE LET v == parse_i32(unwrap(raw))
            IN IF is_ok(v) THEN Ok(Some(v.val))
               ELSE Err(AttributeParseError(name, unwrap(raw)))

(***************************************************************************)
(* The components registered by the example (custom_components/main.rs).   *)
(***************************************************************************)
unwrap_or(o, d) == IF is_some(o) THEN unwrap(o) ELSE d

\* fn Counter(initial: i32) -> Element
Counter(initial) == [k |-> "Counter", initial |-> initial]

\* fn ColorBox(children: Element) -> Element
ColorBox(children) == [k |-> "ColorBox", children |-> children]

\* a Counter closure that swallows the lookup's error and falls back to 0
CounterFnLenient(p) ==
    LET r == get_parsed_optional(p, "initial")
    IN Ok(Counter(IF is_ok(r) THEN unwrap_or(r.val, 0) ELSE 0))

\* |props| Ok(rsx!{ Counter {initial: props.get_parsed_optional("initial")?.unwrap_or(0)} })
CounterFn(p) ==
    LET r == get_parsed_optional(p, "initial")
    IN IF is_err(r) THEN r ELSE Ok(Counter(unwrap_or(r.val, 0)))

\* |props| Ok(rsx!{ ColorBox {children: props.children} })
BoxFn(p) == Ok(ColorBox(p.children))

\* applying a boxed component function
Call(f, p) == CASE f = "CounterFn" -> CounterFn(p) [] f = "BoxFn" -> BoxFn(p)

(***************************************************************************)
(* CustomComponents: Rc<BTreeMap<&'static str, Box<dyn Fn(..) -> ..>>>.    *)
(* A map is a function from names to component functions.                  *)
(***************************************************************************)
EmptyMap == [n \in {} |-> "CounterFn"]

insert(m, name, f) == [n \in DOMAIN m \cup {name} |-> IF n = name THEN f ELSE m[n]]

\* BTreeMap::from_iter: the entries inserted in order, a later one replacing an earlier
RECURSIVE from_iter(_, _)
from_iter(content, m) ==
    IF content = <<>> THEN m
    ELSE from_iter(Tail(content), insert(m, Head(content)[1], Head(content)[2]))

\* the entry list of the example, and variations of it
ExampleEntries == << <<"Counter", "CounterFn">>, <<"box", "BoxFn">> >>
EntryLists ==
    { <<>>,
      ExampleEntries,
      << <<"Counter", "CounterFn">> >>,
      << <<"box", "CounterFn">>, <<"Counter", "BoxFn">> >>,
      << <<"Counter", "BoxFn">>, <<"box", "BoxFn">>, <<"Counter", "CounterFn">> >> }

(***************************************************************************)
(* View construction (the impl of Context for MdContext)                   *)
(***************************************************************************)
el_text(text) == [k |-> "text", text |-> text]
el_a(children, href) == [k |-> "a", href |-> href, children |-> children]
el_fragment(children) == [k |-> "fragment", children |-> children]

LinkDescription(url, content) == [url |-> url, content |-> content]

\* the host's link callback: Rc<dyn Fn(LinkDescription<Element>) -> Element>
HtmlCallback(link) == [k |-> "custom_link", link |-> link]

(***************************************************************************)
(* What a call into the context did: its return value (None when it        *)
(* panicked), the component functions and the link callback it invoked.    *)
(***************************************************************************)
Returned(res, cs, ls) == [panicked |-> FALSE, res |-> Some(res), calls |-> cs, links |-> ls]
Panicked(cs, ls) == [panicked |-> TRUE, res |-> None, calls |-> cs, links |-> ls]

\* a has_custom_links that answers yes whether or not a callback is set
has_custom_links_always(p) == TRUE

\* self.0.read().render_links.is_some()
has_custom_links(p) == is_some(p.render_links)

\* Ok(self.0.read().render_links.as_ref().unwrap()(link))
render_links(p, link) ==
    IF ~is_some(p.render_links) THEN Panicked(<<>>, <<>>)
    ELSE Returned(Ok(HtmlCallback(link)), <<>>, <<link>>)

\* a has_custom_component that answers yes for every name
has_custom_component_always(p, name) == TRUE

\* self.0.read().components.0.get(name).is_some()
has_custom_component(p, name) == name \in DOMAIN p.components

\* a render_custom_component that calls the first function of the map
render_custom_component_first(p, name, input) ==
    IF name \notin DOMAIN p.components THEN Panicked(<<>>, <<>>)
    ELSE LET first == IF "Counter" \in DOMAIN p.components THEN "Counter" ELSE name
             f == p.components[first]
         IN Returned(Call(f, input), <<[f |-> f, input |-> input]>>, <<>>)

\* a render_custom_component that turns the function's Err into an empty view
render_custom_component_lenient(p, name, input) ==
    IF name \notin DOMAIN p.components THEN Panicked(<<>>, <<>>)
    ELSE LET f == p.components[name]
             r == Call(f, input)
         IN Returned(IF is_err(r) THEN Ok(el_fragment(<<>>)) ELSE r,
                     <<[f |-> f, input |-> input]>>, <<>>)

\* let f = props.components.0.get(name).unwrap(); f(input)
render_custom_component(p, name, input) ==
    IF name \notin DOMAIN p.components THEN Panicked(<<>>, <<>>)
    ELSE LET f == p.components[name]
         IN Returned(Call(f, input), <<[f |-> f, input |-> input]>>, <<>>)

\* a set_frontmatter that keeps the first text it was given
set_frontmatter_first(p, sig, frontmatter) ==
    IF is_some(p.frontmatter) /\ sig = "" THEN frontmatter ELSE sig

\* self.0.read().frontmatter.as_ref().map(|x| x.set(frontmatter)): the signal's new value
set_frontmatter(p, sig, frontmatter) ==
    IF is_some(p.frontmatter) THEN frontmatter ELSE sig

(***************************************************************************)
(* The markdown engine (render_markdown) driving the context: one parse    *)
(* event at a time, children before their parent.                          *)
(***************************************************************************)
Node(k, name, attrs, child, text) ==
    [k |-> k, name |-> name, attrs |-> attrs, child |-> child, text |-> text]

TextNode == Node("text", "", <<>>, None, "t")
LinkNode == Node("link", "", <<>>, None, "url")
FrontmatterNodes == {Node("frontmatter", "", <<>>, None, t) : t \in {"fm1", "fm2"}}
AttrLists == { <<>>, << <<"initial", <<"5">> >> >>, << <<"initial", <<"a">> >> >> }
Custom(name, attrs, child) == Node("custom", name, attrs, child, "")
\* self-closing tags: <Counter .../>, <Foo/>
LeafTags == {Custom("Counter", a, None) : a \in AttrLists} \cup {Custom("Foo", <<>>, None)}
\* <box> ... </box> around nothing, text, or a self-closing tag
BoxTags == {Custom("box", <<>>, c) :
               c \in {None, Some(TextNode), Some(Custom("Counter", << <<"initial", <<"a">> >> >>, None)),
                      Some(Custom("Counter", <<>>, None)), Some(Custom("Foo", <<>>, None))}}
CustomNodes == LeafTags \cup BoxTags

\* dispatch of one custom-component occurrence whose children are rendered
custom_component(p, name, attrs, children) ==
    LET input == MdComponentProps(attrs, children)
    IN IF ~has_custom_component(p, name)
       THEN Returned(Err(UnknownComponent(name)), <<>>, <<>>)
       ELSE render_custom_component(p, name, input)

\* a link: the host's override when there is one, the default <a> otherwise
link(p, children, href) ==
    IF has_custom_links(p)
    THEN render_links(p, LinkDescription(href, children))
    ELSE Returned(Ok(el_a(children, href)), <<>>, <<>>)

\* a tag without children, or text
render_leaf(p, node) ==
    CASE node.k = "text" -> Returned(Ok(el_text(node.text)), <<>>, <<>>)
      [] node.k = "link" -> link(p, el_text("label"), node.text)
      [] node.k = "custom" -> custom_component(p, node.name, node.attrs, None)

\* a node: its child first, then the node itself around the child's view
render(p, node) ==
    IF node.k # "custom" \/ ~is_some(node.child) THEN render_leaf(p, node)
    ELSE LET c == render_leaf(p, unwrap(node.child))
         IN IF c.panicked \/ is_err(unwrap(c.res)) THEN c
            ELSE LET o == custom_component(p, node.name, node.attrs, Some(unwrap(c.res).val))
                 IN [o EXCEPT !.calls = c.calls \o o.calls, !.links = c.links \o o.links]

(***************************************************************************)
(* The render pass                                                         *)
(***************************************************************************)
PropsSet ==
    [render_links : {None, Some("cb")},
     components : {from_iter(e, EmptyMap) : e \in EntryLists},
     frontmatter : {None, Some("sig")}]

\* the variables of the other machines, at rest
HandlerIdle == on_click = None /\ handlers = <<>> /\ made = <<>> /\ click = None
RegistryIdle == heap = <<>> /\ regs = <<>> /\ nconstr = 0
PropsIdle == mdprops = MdComponentProps(<<>>, None) /\ lookup = None
ElementIdle == elems = <<None, None>>
RenderIdle ==
    /\ props = [render_links |-> None, components |-> EmptyMap, frontmatter |-> None]
    /\ signal = "" /\ pc = "Idle" /\ nodes = <<>> /\ views = <<>> /\ result = None
    /\ calls = <<>> /\ linkCalls = <<>> /\ fmCalls = <<>>

Init ==
    /\ props \in PropsSet
    /\ signal = "" /\ pc = "Idle" /\ nodes = <<>> /\ views = <<>> /\ result = None
    /\ calls = <<>> /\ linkCalls = <<>> /\ fmCalls = <<>>
    /\ HandlerIdle /\ RegistryIdle /\ PropsIdle /\ ElementIdle

restUnchangedR == UNCHANGED <<handlerVars, registryVars, propsVars, elementVars>>

\* pub fn Markdown(cx: Signal<MdProps>) -> Element: the pass begins
Markdown ==
    /\ pc = "Idle"
    /\ pc' = "Parsing"
    /\ UNCHANGED <<props, signal, nodes, views, result, calls, linkCalls, fmCalls>>
    /\ restUnchangedR

\* the engine takes the outcome o of rendering node: the view is kept, or the pass ends
Advance(node, o) ==
    /\ nodes' = Append(nodes, node)
    /\ calls' = calls \o o.calls
    /\ linkCalls' = linkCalls \o o.links
    /\ IF o.panicked
       THEN pc' = "Panicked" /\ result' = None /\ UNCHANGED views
       ELSE IF is_err(unwrap(o.res))
       THEN pc' = "Failed" /\ result' = o.res /\ UNCHANGED views
       ELSE pc' = "Parsing" /\ views' = Append(views, unwrap(o.res).val) /\ UNCHANGED result
    /\ UNCHANGED <<props, signal, fmCalls>>
    /\ restUnchangedR

Emitting ==
    /\ pc = "Parsing" /\ Len(nodes) < MaxNodes
    /\ Advance(TextNode, render(props, TextNode))

EmittingLink ==
    /\ pc = "Parsing" /\ Len(nodes) < MaxNodes
    /\ Advance(LinkNode, render(props, LinkNode))

Dispatching ==
    /\ pc = "Parsing" /\ Len(nodes) < MaxNodes
    /\ \E node \in CustomNodes : Advance(node, render(props, node))

FrontmatterCapture ==
    /\ pc = "Parsing" /\ Len(nodes) < MaxNodes
    /\ \E node \in FrontmatterNodes :
          /\ nodes' = Append(nodes, node)
          /\ signal' = set_frontmatter(props, signal, node.text)
          /\ fmCalls' = Append(fmCalls, node.text)
    /\ UNCHANGED <<props, pc, views, result, calls, linkCalls>>
    /\ restUnchangedR

\* the event stream ends: the root view goes back to the host
Done ==
    /\ pc = "Parsing"
    /\ pc' = "Done"
    /\ result' = Some(Ok(el_fragment(views)))
    /\ UNCHANGED <<props, signal, nodes, views, calls, linkCalls, fmCalls>>
    /\ restUnchangedR

Next == Markdown \/ Emitting \/ EmittingLink \/ Dispatching \/ FrontmatterCapture \/ Done

Spec == Init /\ [][Next]_vars

(***************************************************************************)
(* Properties of the render pass.  They are stated from the registry and   *)
(* the registered functions alone: what each processed parse event must    *)
(* have led to.                                                            *)
(***************************************************************************)
Registered(name) == name \in DOMAIN props.components
Stored(name) == props.components[name]

\* the view a child must have rendered to, when it rendered
ChildView(c) ==
    IF c.k = "text" THEN el_text(c.text)
    ELSE Call(Stored(c.name), MdComponentProps(c.attrs, None)).val

\* the child rendered to a view
ChildOk(c) ==
    \/ c.k = "text"
    \/ c.k = "custom" /\ Registered(c.name)
         /\ is_ok(Call(Stored(c.name), MdComponentProps(c.attrs, None)))

\* the props occurrence n is dispatched with
InputOf(n) ==
    MdComponentProps(n.attrs, IF is_some(n.child) THEN Some(ChildView(unwrap(n.child))) ELSE None)

\* dispatch reaches the occurrence n itself: its child, if any, rendered
Reached(n) == n.k = "custom" /\ (is_some(n.child) => ChildOk(unwrap(n.child)))

\* the custom-component occurrences of a parse event that dispatch reaches, in order
Occurrences(n) ==
    (IF n.k = "custom" /\ is_some(n.child) /\ unwrap(n.child).k = "custom"
     THEN <<[name |-> unwrap(n.child).name, input |-> InputOf(unwrap(n.child))]>> ELSE <<>>)
    \o (IF Reached(n) THEN <<[name |-> n.name, input |-> InputOf(n)]>> ELSE <<>>)

RECURSIVE AllOccurrences(_)
AllOccurrences(ns) ==
    IF ns = <<>> THEN <<>> ELSE AllOccurrences(SubSeq(ns, 1, Len(ns) - 1)) \o Occurrences(ns[Len(ns)])

\* the invocations the registered occurrences ask for, in order
RECURSIVE ExpectedCalls(_)
ExpectedCalls(os) ==
    IF os = <<>> THEN <<>>
    ELSE (IF Registered(Head(os).name)
          THEN <<[f |-> Stored(Head(os).name), input |-> Head(os).input]>> ELSE <<>>)
         \o ExpectedCalls(Tail(os))

\* how many views the first i parse events emit when none fails
ViewIdx(i) == Cardinality({j \in 1..i : nodes[j].k # "frontmatter"})

\* the pass ended at event i with error e, and nothing of event i was emitted
FailedAt(i, e) ==
    /\ pc = "Failed" /\ result = Some(Err(e))
    /\ i = Len(nodes) /\ Len(views) = ViewIdx(i) - 1

\* C1: every dispatched custom-component occurrence whose name is not a key of
\* the registry ends the pass with Err(UnknownComponent(name)) returned to the
\* host; no view of it is produced and the pass does not panic.
C1_UnknownComponentFails ==
    \A i \in 1..Len(nodes) :
        \A j \in 1..Len(Occurrences(nodes[i])) :
            LET o == Occurrences(nodes[i])[j]
            IN ~Registered(o.name) => FailedAt(i, UnknownComponent(o.name))

C1_Witness ==
    /\ pc = "Failed" /\ result = Some(Err(UnknownComponent("Foo")))
    /\ Registered("Counter") /\ Len(views) >= 1

\* C2: every dispatched occurrence with a registered name invokes the function
\* stored under that name, once, with the occurrence's props, and no other
\* function; Ok(view) is emitted as that view, Err(e) is returned as that e.
C2_DispatchCallsStoredFunction ==
    /\ calls = ExpectedCalls(AllOccurrences(nodes))
    /\ \A i \in 1..Len(nodes) :
          LET n == nodes[i]
          IN (Reached(n) /\ Registered(n.name)) =>
                LET r == Call(Stored(n.name), InputOf(n))
                IN IF is_ok(r) THEN /\ Len(views) >= ViewIdx(i)
                                    /\ views[ViewIdx(i)] = r.val
                   ELSE FailedAt(i, r.val)

C2_Witness ==
    /\ pc = "Done" /\ Len(calls) = 3
    /\ \E i \in 1..Len(nodes) : nodes[i].name = "box" /\ is_some(nodes[i].child)
    /\ \E i \in 1..Len(views) : views[i] = Counter(5)

\* C7: the host's frontmatter signal holds the text of the most recent
\* set_frontmatter call; without a sink the calls change nothing and the pass
\* goes on.
C7_FrontmatterLastWriteWins ==
    /\ (is_some(props.frontmatter) /\ fmCalls # <<>>) => signal = fmCalls[Len(fmCalls)]
    /\ ~is_some(props.frontmatter) => signal = ""
    /\ (nodes # <<>> /\ nodes[Len(nodes)].k = "frontmatter") => pc \in {"Parsing", "Done"}

C7_Witness ==
    /\ is_some(props.frontmatter) /\ Len(fmCalls) = 2
    /\ fmCalls[1] = "fm1" /\ fmCalls[2] = "fm2" /\ signal = "fm2"

\* the error a parse event's rendering ends with, if any
ErrorOf(n) ==
    IF n.k # "custom" THEN None
    ELSE IF is_some(n.child) /\ unwrap(n.child).k = "custom" /\ ~ChildOk(unwrap(n.child))
    THEN (IF ~Registered(unwrap(n.child).name) THEN Some(UnknownComponent(unwrap(n.child).name))
          ELSE Some(Call(Stored(unwrap(n.child).name), InputOf(unwrap(n.child))).val))
    ELSE IF ~Registered(n.name) THEN Some(UnknownComponent(n.name))
    ELSE IF is_err(Call(Stored(n.name), InputOf(n))) THEN Some(Call(Stored(n.name), InputOf(n)).val)
    ELSE None

\* C8: a pass ends Done with a root view or Failed with one error, never by a
\* panic; the first failing dispatch ends it at once: the failing event is the
\* last one processed, nothing of it is emitted, and the host gets the error
\* and no view.
C8_PassDoneOrFailed ==
    /\ pc \in {"Idle", "Parsing", "Done", "Failed"}
    /\ pc \in {"Idle", "Parsing"} => result = None
    /\ pc = "Done" => /\ result = Some(Ok(el_fragment(views)))
                      /\ Len(views) = ViewIdx(Len(nodes))
                      /\ \A i \in 1..Len(nodes) : ErrorOf(nodes[i]) = None
    /\ pc = "Failed" => /\ is_some(result) /\ is_err(unwrap(result))
                        /\ ErrorOf(nodes[Len(nodes)]) = Some(unwrap(result).val)
    /\ \A i \in 1..Len(nodes) :
          is_some(ErrorOf(nodes[i])) => FailedAt(i, unwrap(ErrorOf(nodes[i])))

C8_Witness ==
    /\ pc = "Failed" /\ Len(nodes) = 3 /\ Len(views) = 2
    /\ result = Some(Err(AttributeParseError("initial", <<"a">>)))
    /\ nodes[3].name = "box"

\* C9: without a link override render_links is never invoked, every link is
\* rendered as the default <a>, and the pass neither fails nor panics on it;
\* render_links runs only when an override is registered.
C9_NoOverrideDefaultLinks ==
    /\ linkCalls # <<>> => is_some(props.render_links)
    /\ ~is_some(props.render_links) =>
          \A i \in 1..Len(nodes) :
              nodes[i].k = "link" =>
                  /\ pc \in {"Parsing", "Done"} \/ i < Len(nodes)
                  /\ Len(views) >= ViewIdx(i)
                  /\ views[ViewIdx(i)] = el_a(el_text("label"), nodes[i].text)

C9_Witness ==
    /\ ~is_some(props.render_links) /\ pc = "Done"
    /\ \E i \in 1..Len(nodes) : nodes[i].k = "link"

C9_WitnessOverride ==
    /\ is_some(props.render_links) /\ linkCalls # <<>> /\ pc = "Done"

(***************************************************************************)
(* Interaction handlers: make_md_handler, the host replacing on_click,     *)
(* and the user clicking rendered nodes.                                   *)
(***************************************************************************)
Callbacks == {"A", "B"}
OnClickValues == {None} \cup {Some(c) : c \in Callbacks}
\* source ranges start..end with start <= end <= len(src)
Ranges == {<<0, 0>>, <<0, 2>>, <<1, 2>>}
MouseEvents == {"e1", "e2"}

MarkdownMouseEvent(mouse_event, position) == [mouse_event |-> mouse_event, position |-> position]

\* what an invocation does to the outside: halting the raw event, calling a callback
StopPropagation(e) == [k |-> "stop_propagation", cb |-> "", report |-> MarkdownMouseEvent(e, <<0, 0>>)]
CallOnClick(cb, report) == [k |-> "call", cb |-> cb, report |-> report]

\* let on_click = self.0.read().on_click.as_ref(); self.0.event_handler(move |e| ...):
\* the handler holds the range, the flag and the on_click read when it was made
make_md_handler(current, position, stop_propagation) ==
    [position |-> position, stop_propagation |-> stop_propagation, on_click |-> current]

\* a closure that reports before it halts propagation
event_handler_call_first(h, e) ==
    (IF is_some(h.on_click)
     THEN <<CallOnClick(unwrap(h.on_click), MarkdownMouseEvent(e, h.position))>> ELSE <<>>)
    \o (IF h.stop_propagation THEN <<StopPropagation(e)>> ELSE <<>>)

\* the closure's body: stop_propagation, build the report, on_click.map(|x| x.call(report))
event_handler(h, e) ==
    (IF h.stop_propagation THEN <<StopPropagation(e)>> ELSE <<>>)
    \o (IF is_some(h.on_click)
        THEN <<CallOnClick(unwrap(h.on_click), MarkdownMouseEvent(e, h.position))>> ELSE <<>>)

InitHandler ==
    /\ on_click \in OnClickValues
    /\ handlers = <<>> /\ made = <<>> /\ click = None
    /\ RenderIdle /\ RegistryIdle /\ PropsIdle /\ ElementIdle

restUnchangedH == UNCHANGED <<renderVars, registryVars, propsVars, elementVars>>

\* the host writes MdProps.on_click: sets, replaces or clears the callback
HostSetOnClick ==
    /\ \E v \in OnClickValues : v # on_click /\ on_click' = v
    /\ UNCHANGED <<handlers, made, click>>
    /\ restUnchangedH

\* the engine asks for the handler of an interactive node
MakeMdHandler ==
    /\ Len(handlers) < MaxHandlers
    /\ \E position \in Ranges, stop_propagation \in BOOLEAN :
          /\ handlers' = Append(handlers, make_md_handler(on_click, position, stop_propagation))
          /\ made' = Append(made, [range |-> position, stop_propagation |-> stop_propagation])
    /\ UNCHANGED <<on_click, click>>
    /\ restUnchangedH

\* fn call_handler(callback, input): the user clicks a node and its handler runs
call_handler ==
    /\ \E i \in 1..Len(handlers), e \in MouseEvents :
          click' = Some([h |-> i, e |-> e, live |-> on_click,
                         effects |-> event_handler(handlers[i], e)])
    /\ UNCHANGED <<on_click, handlers, made>>
    /\ restUnchangedH

NextHandler == HostSetOnClick \/ MakeMdHandler \/ call_handler

SpecHandler == InitHandler /\ [][NextHandler]_vars

IsCall(x) == x.k = "call"
IsStop(x) == x.k = "stop_propagation"

\* C5 (as claimed): a click is forwarded to the callback that is live when the
\* user clicks, whatever was registered when the handler was made: to that
\* callback when there is one, to none otherwise.
C5_CallbackReadAtInvocation ==
    is_some(click) =>
        LET c == unwrap(click)
            forwarded == SelectSeq(c.effects, IsCall)
        IN IF is_some(c.live)
           THEN Len(forwarded) = 1 /\ forwarded[1].cb = unwrap(c.live)
           ELSE forwarded = <<>>

C6_WitnessNoCallback ==
    /\ is_some(click)
    /\ made[unwrap(click).h].stop_propagation
    /\ ~is_some(handlers[unwrap(click).h].on_click)
    /\ unwrap(click).effects = <<StopPropagation(unwrap(click).e)>>

(***************************************************************************)
(* CustomComponents values.  Rc::new takes any free address; the           *)
(* allocation is freed, and its address may be taken again, when the last  *)
(* value pointing to it is dropped.                                        *)
(***************************************************************************)
Addrs == {"x1", "x2", "x3"}
Slots == {"r1", "r2", "r3"}

\* a CustomComponents value: the Rc pointer (origin: the construction it stems from)
CustomComponents(ptr, origin) == [ptr |-> ptr, origin |-> origin]

\* an eq that compares the maps, as a derived PartialEq would
eq_structural(a, b) == unwrap(heap[a.ptr]).map = unwrap(heap[b.ptr]).map

\* impl PartialEq for CustomComponents: Rc::ptr_eq(&self.0, &other.0)
eq(a, b) == a.ptr = b.ptr

InitRegistry ==
    /\ heap = [a \in Addrs |-> None]
    /\ regs = [s \in Slots |-> None]
    /\ nconstr = 0
    /\ RenderIdle /\ HandlerIdle /\ PropsIdle /\ ElementIdle

restUnchangedG == UNCHANGED <<renderVars, handlerVars, propsVars, elementVars>>

\* Rc::new(map) stored into the host's variable s
Allocate(s, map) ==
    /\ regs[s] = None /\ nconstr < MaxConstr
    /\ \E a \in Addrs :
          /\ heap[a] = None
          /\ heap' = [heap EXCEPT ![a] = Some([map |-> map, strong |-> 1])]
          /\ regs' = [regs EXCEPT ![s] = Some(CustomComponents(a, nconstr + 1))]
    /\ nconstr' = nconstr + 1
    /\ restUnchangedG

\* CustomComponents::new(content): Self(Rc::new(BTreeMap::from_iter(content)))
CustomComponents_new == \E s \in Slots, content \in EntryLists : Allocate(s, from_iter(content, EmptyMap))

\* CustomComponents::default(): Self(Default::default())
CustomComponents_default == \E s \in Slots : Allocate(s, EmptyMap)

\* #[derive(Clone)]: Rc::clone
CustomComponents_clone ==
    /\ \E s \in Slots, t \in Slots :
          /\ regs[s] # None /\ regs[t] = None
          /\ LET a == unwrap(regs[s]).ptr
                 c == unwrap(heap[a])
             IN heap' = [heap EXCEPT ![a] = Some([c EXCEPT !.strong = c.strong + 1])]
          /\ regs' = [regs EXCEPT ![t] = regs[s]]
    /\ UNCHANGED nconstr
    /\ restUnchangedG

\* a value goes out of scope: Rc::drop
CustomComponents_drop ==
    /\ \E s \in Slots :
          /\ regs[s] # None
          /\ LET a == unwrap(regs[s]).ptr
                 c == unwrap(heap[a])
             IN heap' = [heap EXCEPT ![a] = IF c.strong = 1 THEN None
                                            ELSE Some([c EXCEPT !.strong = c.strong - 1])]
          /\ regs' = [regs EXCEPT ![s] = None]
    /\ UNCHANGED nconstr
    /\ restUnchangedG

NextRegistry ==
    CustomComponents_new \/ CustomComponents_default \/ CustomComponents_clone \/ CustomComponents_drop

SpecRegistry == InitRegistry /\ [][NextRegistry]_vars

\* C4: two registry values compare equal exactly when they are the same shared
\* instance: a value and its clones stem from one construction and are equal,
\* values of separate new or default calls are unequal whatever they contain.
C4_EqualIffSameInstance ==
    \A s \in Slots, t \in Slots :
        (regs[s] # None /\ regs[t] # None) =>
            (eq(unwrap(regs[s]), unwrap(regs[t])) <=> unwrap(regs[s]).origin = unwrap(regs[t]).origin)

C4_Witness ==
    /\ regs["r1"] # None /\ regs["r2"] # None /\ regs["r3"] # None
    /\ unwrap(regs["r1"]).origin # unwrap(regs["r2"]).origin
    /\ unwrap(heap[unwrap(regs["r1"]).ptr]).map = unwrap(heap[unwrap(regs["r2"]).ptr]).map
    /\ unwrap(regs["r3"]).origin = unwrap(regs["r1"]).origin
    /\ ~eq(unwrap(regs["r1"]), unwrap(regs["r2"]))
    /\ eq(unwrap(regs["r1"]), unwrap(regs["r3"]))

(***************************************************************************)
(* Attribute lookup: a component function reading its MdComponentProps.    *)
(***************************************************************************)
\* raw attribute values: the character strings of at most MaxLen characters
RawValues == UNION {[1..n -> Chars] : n \in 0..MaxLen}

\* the attributes of a tag: none, `initial`, another attribute, or both
AttributesSet ==
    {<<>>}
    \cup {<< <<"initial", v>> >> : v \in RawValues}
    \cup {<< <<"other", v>> >> : v \in RawValues}
    \cup {<< <<"other", <<"1">> >>, <<"initial", v>> >> : v \in RawValues}

AttributeNames == {"initial", "other"}

InitProps ==
    /\ mdprops \in {MdComponentProps(a, None) : a \in AttributesSet}
    /\ lookup = None
    /\ RenderIdle /\ HandlerIdle /\ RegistryIdle /\ ElementIdle

restUnchangedP == UNCHANGED <<renderVars, handlerVars, registryVars, elementVars>>

GetRequired ==
    /\ \E name \in AttributeNames :
          lookup' = Some([op |-> "get_required", name |-> name, out |-> get_required(mdprops, name)])
    /\ UNCHANGED mdprops
    /\ restUnchangedP

GetParsedOptional ==
    /\ \E name \in AttributeNames :
          lookup' = Some([op |-> "get_parsed_optional", name |-> name,
                          out |-> get_parsed_optional(mdprops, name)])
    /\ UNCHANGED mdprops
    /\ restUnchangedP

\* the registered "Counter" function applied to the tag's props
RenderCounter ==
    /\ lookup' = Some([op |-> "Counter", name |-> "initial", out |-> Call("CounterFn", mdprops)])
    /\ UNCHANGED mdprops
    /\ restUnchangedP

NextProps == GetRequired \/ GetParsedOptional \/ RenderCounter

SpecProps == InitProps /\ [][NextProps]_vars

\* the attribute is present in the tag
Present(name) == \E i \in 1..Len(mdprops.attributes) : mdprops.attributes[i][1] = name
RawOf(name) ==
    mdprops.attributes[CHOOSE i \in 1..Len(mdprops.attributes) : mdprops.attributes[i][1] = name][2]

\* an integer literal: an optional sign, then one or more digits
Unsigned(v) == IF v # <<>> /\ v[1] \in {"+", "-"} THEN Tail(v) ELSE v
IsLiteral(v) == Unsigned(v) # <<>> /\ \A i \in 1..Len(Unsigned(v)) : Unsigned(v)[i] \in Digits
RECURSIVE Positional(_)
Positional(ds) ==
    IF ds = <<>> THEN 0 ELSE digit(ds[Len(ds)]) + 10 * Positional(SubSeq(ds, 1, Len(ds) - 1))
ValueOf(v) == IF v[1] = "-" THEN -Positional(Unsigned(v)) ELSE Positional(Unsigned(v))

IsErr(out, e) == out.tag = "Err" /\ out.val = e
IsOk(out, v) == out.tag = "Ok" /\ out.val = v

\* C3: the outcome of a lookup is fixed by presence and parseability: absent,
\* get_required gives Err(MissingAttribute(name)) and get_parsed_optional
\* Ok(None); present and an integer literal, both give its value; present and
\* not a literal, both give Err(AttributeParseError(name, raw)).  The Counter,
\* reading the optional `initial` with default 0, renders the value, renders 0
\* when `initial` is absent, and fails with the lookup's error otherwise.
C3_LookupByPresenceAndParse ==
    is_some(lookup) =>
        LET l == unwrap(lookup)
            absent == ~Present(l.name)
            parses == Present(l.name) /\ IsLiteral(RawOf(l.name))
            malformed == Present(l.name) /\ ~IsLiteral(RawOf(l.name))
        IN /\ malformed => IsErr(l.out, AttributeParseError(l.name, RawOf(l.name)))
           /\ l.op = "get_required" =>
                 /\ absent => IsErr(l.out, MissingAttribute(l.name))
                 /\ parses => IsOk(l.out, ValueOf(RawOf(l.name)))
           /\ l.op = "get_parsed_optional" =>
                 /\ absent => IsOk(l.out, None)
                 /\ parses => IsOk(l.out, Some(ValueOf(RawOf(l.name))))
           /\ l.op = "Counter" =>
                 /\ absent => IsOk(l.out, Counter(0))
                 /\ parses => IsOk(l.out, Counter(ValueOf(RawOf(l.name))))

C3_Witness ==
    /\ is_some(lookup) /\ unwrap(lookup).op = "Counter"
    /\ mdprops.attributes = << <<"initial", <<"5">> >> >>
    /\ unwrap(lookup).out = Ok(Counter(5))

C3_WitnessMalformed ==
    /\ is_some(lookup) /\ unwrap(lookup).op = "Counter"
    /\ mdprops.attributes = << <<"initial", <<"a">> >> >>
    /\ unwrap(lookup).out = Err(AttributeParseError("initial", <<"a">>))

C3_WitnessAbsent ==
    /\ is_some(lookup) /\ unwrap(lookup).op = "Counter"
    /\ mdprops.attributes = <<>>
    /\ unwrap(lookup).out = Ok(Counter(0))

(***************************************************************************)
(* el_with_attributes: one structural node around an inner view.           *)
(***************************************************************************)
HtmlElement(kind, arg) == [kind |-> kind, arg |-> arg]

\* heading levels the parser produces
HeadingLevels == 1..6

HtmlElements ==
    {HtmlElement(k, 0) : k \in {"Div", "Span", "Paragraph", "BlockQuote", "Ul", "Li", "Table",
                                "Thead", "Trow", "Tcell", "Italics", "Bold", "StrikeThrough",
                                "Pre", "Code"}}
    \cup {HtmlElement("Ol", x) : x \in 0..MaxStart}
    \cup {HtmlElement("Heading", n) : n \in HeadingLevels}

ElementAttributes(classes, style, onclick) == [classes |-> classes, style |-> style, on_click |-> onclick]

\* Default for ElementAttributes, and attributes with everything set
AttributesValues ==
    { ElementAttributes(<<>>, None, None),
      ElementAttributes(<<"c1">>, Some("color: red"), None),
      ElementAttributes(<<"c1", "c2">>, None, Some("h")) }

\* classes.join(" "): the class names with single spaces between them
RECURSIVE join(_)
join(classes) ==
    IF classes = <<>> THEN <<>>
    ELSE IF Len(classes) = 1 THEN classes
    ELSE <<Head(classes), " ">> \o join(Tail(classes))

\* rsx! { tag { onclick, style, class, [start,] {inside} } }
rsx(tag, onclick, style, class, start, inside) ==
    [tag |-> tag, onclick |-> onclick, style |-> style, class |-> class, start |-> start,
     inside |-> inside]

el_with_attributes(e, inside, attributes) ==
    LET class == join(attributes.classes)
        style == unwrap_or(attributes.style, "")
        onclick == unwrap_or(attributes.on_click, "default")
        el(tag) == rsx(tag, onclick, style, class, None, inside)
    IN CASE e.kind = "Div" -> el("div")
         [] e.kind = "Span" -> el("span")
         [] e.kind = "Paragraph" -> el("p")
         [] e.kind = "BlockQuote" -> el("blockquote")
         [] e.kind = "Ul" -> el("ul")
         [] e.kind = "Ol" -> rsx("ol", onclick, style, class, Some(e.arg), inside)
         [] e.kind = "Li" -> el("li")
         [] e.kind = "Heading" /\ e.arg = 1 -> el("h1")
         [] e.kind = "Heading" /\ e.arg = 2 -> el("h2")
         [] e.kind = "Heading" /\ e.arg = 3 -> el("h3")
         [] e.kind = "Heading" /\ e.arg = 4 -> el("h4")
         [] e.kind = "Heading" /\ e.arg = 5 -> el("h5")
         [] e.kind = "Heading" /\ e.arg = 6 -> el("h6")
         [] e.kind = "Heading" /\ e.arg \notin 1..6 -> el("panic")
         [] e.kind = "Table" -> el("table")
         [] e.kind = "Thead" -> el("thead")
         [] e.kind = "Trow" -> el("tr")
         [] e.kind = "Tcell" -> el("td")
         [] e.kind = "Italics" -> el("i")
         [] e.kind = "Bold" -> el("b")
         [] e.kind = "StrikeThrough" -> el("s")
         [] e.kind = "Pre" -> el("p")
         [] e.kind = "Code" -> el("code")

InitElement ==
    /\ elems = <<None, None>>
    /\ RenderIdle /\ HandlerIdle /\ RegistryIdle /\ PropsIdle

\* the engine builds a structural node; the last two built are kept
ElWithAttributes ==
    /\ \E i \in 1..2, e \in HtmlElements, attributes \in AttributesValues :
          elems' = [elems EXCEPT ![i] =
                       Some([e |-> e, node |-> el_with_attributes(e, el_text("t"), attributes)])]
    /\ UNCHANGED <<renderVars, handlerVars, registryVars, propsVars>>

NextElement == ElWithAttributes

SpecElement == InitElement /\ [][NextElement]_vars

\* the structural kind of an element: its variant, and the level of a heading
KindOf(e) == IF e.kind = "Heading" THEN <<e.kind, e.arg>> ELSE <<e.kind, 0>>

\* C10 (as claimed): nodes built from two different structural kinds carry
\* different output tags.
C10_TagsInjective ==
    (is_some(elems[1]) /\ is_some(elems[2])) =>
        (KindOf(unwrap(elems[1]).e) # KindOf(unwrap(elems[2]).e)
            => unwrap(elems[1]).node.tag # unwrap(elems[2]).node.tag)

====
